---- MODULE Spec2Model ----
(***************************************************************************)
(* LogoGrid: the logo resolution pipeline.                                 *)
(*                                                                         *)
(*   app/scraper/logo_extractor.py   LogoExtractor  (fetch + cascade)      *)
(*   app/scraper/image_processor.py  ImageProcessor (download + cache)     *)
(*   app/scraper/placeholder_generator.py  PlaceholderGenerator            *)
(*   app/refresh.py                  LogoRefresher  (orchestration)        *)
(*                                                                         *)
(* Text is modelled as a sequence of tokens, so that the substring,        *)
(* suffix and replace operations of the code are computed on it.  URLs are *)
(* kept in parsed form (scheme, netloc, path).  Python's None is the       *)
(* record None where the value is a URL, a path or a record, and the       *)
(* string NoneStr where it is a message.                                   *)
(***************************************************************************)
EXTENDS Integers, Sequences, FiniteSets, TLC

VARIABLES
    catalog,       \* config/sites.json: the ordered list of SiteSpec records
    logos,         \* data/logos.json: the persisted list of LogoRecord records
    cache,         \* app/static/cached-logos: slug -> [png, webp] file content
    placeholders,  \* app/static/placeholders: slug -> content of the .svg file
    max_retries,   \* LogoExtractor.max_retries
    mode,          \* which entry point is running: "none", "all", "single", "extract"
    pc,            \* position of the running entry point
    abortCause,    \* the exception that ended the run, NoneStr if none
    sitesRead,     \* refresh_all / refresh_single: the local `sites`
    existing,      \* the local `existing_logos`
    idx,           \* refresh_all: number of catalog entries the loop has passed
    results,       \* refresh_all: the local `results`
    writes,        \* number of times this run has written logos.json
    net,           \* this run's side effects, as a set of <<kind, site url>>
    site,          \* _process_site: the site being processed
    processed,     \* _process_site: how the call of process_logo ended
    attempt,       \* _fetch_page: the loop variable
    sleeps,        \* _fetch_page: the time.sleep durations so far, in order
    gets,          \* _fetch_page: the number of requests.get calls so far
    fetched,       \* _fetch_page: the value returned, None while it runs
    evaluated,     \* extract_logo: the strategies evaluated so far, in order
    heads,         \* _try_common_paths: the number of requests.head calls
    env,           \* what the cascade met: the probe answers and the raise point
    extraction,    \* extract_logo: the dict returned, None while it runs
    calls,         \* this run's calls of generate_placeholder, in order
    workers        \* scrape_now: the refresh threads it has started

persistVars == <<catalog, logos, cache, placeholders, max_retries>>
runVars     == <<mode, pc, abortCause, sitesRead, existing, idx, results, writes, net, site,
                 processed>>
extractVars == <<attempt, sleeps, gets, fetched, evaluated, heads, env, extraction>>
sideVars    == <<calls, workers>>
vars        == <<persistVars, runVars, extractVars, sideVars>>

\* scrape_now has started no thread
NoWorkers == <<>>

None    == [none |-> TRUE]
NoneStr == "None"

\* Python truthiness of an optional reference (None and '' are falsy).
EmptyRef == [ref |-> "empty"]
Truthy(h) == h # None /\ h # EmptyRef

Min(S) == CHOOSE m \in S : \A n \in S : m <= n

-----------------------------------------------------------------------------
(* URLs and references *)

URL(s, n, p) == [scheme |-> s, netloc |-> n, path |-> p]
PathRef(p)   == [ref |-> "path", path |-> p]
AbsRef(u)    == [ref |-> "abs", url |-> u]

\* urllib.parse.urljoin for the two forms of reference the model draws: an
\* absolute URL replaces the base, an absolute path keeps the base's origin.
urljoin(base, h) ==
    IF h.ref = "abs" THEN h.url ELSE URL(base.scheme, base.netloc, h.path)

RefText(h) == IF h.ref = "abs" THEN h.url.path ELSE h.path

EndsWith(text, suffix) == Len(text) > 0 /\ text[Len(text)] = suffix

Lower(tok) ==
    CASE tok = "Logo"  -> "logo"
      [] tok = "Brand" -> "brand"
      [] tok = "Icon"  -> "icon"
      [] OTHER         -> tok

LowerText(text) == [i \in 1..Len(text) |-> Lower(text[i])]

\* The words the code searches for, tokenised like the text they are sought in.
W_logo      == <<"logo">>
W_brand     == <<"brand">>
W_site      == <<"site">>
W_site_logo == <<"site", "-", "logo">>
W_icon      == <<"icon">>
W_apple     == <<"apple-touch-", "icon">>

\* `any(word in text.lower() for word in words)`
ContainsWord(text, words) ==
    \E w \in words : \E i \in 1..(Len(text) - Len(w) + 1) :
        SubSeq(LowerText(text), i, i + Len(w) - 1) = w

-----------------------------------------------------------------------------
(* LogoExtractor: strategies *)

\* _get_icon_size: the number before the first 'x' of the sizes attribute, 0
\* when the attribute is absent, has no 'x', or the number does not parse.
get_icon_size(link) ==
    IF link.sizes.form \in {"WxH", "junkxjunk"}
    THEN IF link.sizes.form = "WxH" THEN link.sizes.w ELSE 0
    ELSE 0

\* sorted(links, key=size, reverse=True): a stable sort, so links of equal
\* size keep their document order.  Position of link i in the sorted list.
SortedRank(links, i) ==
    Cardinality({j \in 1..Len(links) :
        \/ get_icon_size(links[j]) > get_icon_size(links[i])
        \/ get_icon_size(links[j]) = get_icon_size(links[i]) /\ j < i}) + 1

SortedInDocumentOrder(links) == links

SortedBySizeDesc(links) ==
    [r \in 1..Len(links) |-> links[CHOOSE i \in 1..Len(links) : SortedRank(links, i) = r]]

\* first element of a sequence of references that is truthy, else None
RECURSIVE FirstTruthyHref(_)
FirstTruthyHref(links) ==
    IF links = <<>> THEN None
    ELSE IF Truthy(Head(links).href) THEN Head(links).href
    ELSE FirstTruthyHref(Tail(links))

\* rel is multi-valued: the filter is applied to each of its values
RelContains(link, word) ==
    \E v \in 1..Len(link.rel) : ContainsWord(link.rel[v], {word})

AppleLinks(soup) == SelectSeq(soup.links, LAMBDA l : RelContains(l, W_apple))

extract_apple_touch_icon(soup, base_url) ==
    LET h == FirstTruthyHref(SortedBySizeDesc(AppleLinks(soup)))
    IN  IF h # None THEN urljoin(base_url, h) ELSE None

RECURSIVE FirstNonIco(_)
FirstNonIco(icons) ==
    IF icons = <<>> THEN None
    ELSE IF Truthy(Head(icons).href) /\ ~EndsWith(RefText(Head(icons).href), ".ico")
         THEN Head(icons).href
    ELSE FirstNonIco(Tail(icons))

\* soup.find('link', rel='icon', type='image/svg+xml'): the first link one of
\* whose rel values is exactly 'icon' and whose type is image/svg+xml
SvgIcons(soup) ==
    SelectSeq(soup.links, LAMBDA l :
        /\ \E v \in 1..Len(l.rel) : l.rel[v] = W_icon
        /\ l.type = "image/svg+xml")

IconLinks(soup) == SelectSeq(soup.links, LAMBDA l : RelContains(l, W_icon))

extract_favicon(soup, base_url) ==
    IF SvgIcons(soup) # <<>> /\ Truthy(Head(SvgIcons(soup)).href)
    THEN urljoin(base_url, Head(SvgIcons(soup)).href)
    ELSE LET h == FirstNonIco(IconLinks(soup))
         IN  IF h # None THEN urljoin(base_url, h) ELSE None

extract_og_image(soup, base_url) ==
    IF soup.og # None /\ Truthy(soup.og.content)
    THEN urljoin(base_url, soup.og.content) ELSE None

extract_twitter_image(soup, base_url) ==
    IF soup.twitter # None /\ Truthy(soup.twitter.content)
    THEN urljoin(base_url, soup.twitter.content) ELSE None

\* _parse_dimension: an int, or a string that parses once 'px' is removed
parse_dimension(value) ==
    IF value.form \in {"int", "digits", "px"} THEN value.n ELSE 0

Parses(value) == value.form \in {"int", "digits", "px"}

score_logo_image(img) ==
    LET width  == parse_dimension(img.width)
        height == parse_dimension(img.height)
        both   == Parses(img.width) /\ Parses(img.height) /\ width # 0 /\ height # 0
    IN    (IF ContainsWord(img.alt, {W_logo, W_brand, W_site}) THEN 3 ELSE 0)
        + (IF img.src # None /\ img.src # EmptyRef
              /\ ContainsWord(RefText(img.src), {W_logo, W_brand}) THEN 2 ELSE 0)
        + (IF ContainsWord(img.class, {W_logo, W_brand, W_site_logo}) THEN 2 ELSE 0)
        + (IF both /\ 60 <= width /\ width <= 400 /\ 40 <= height /\ height <= 400
           THEN 1 ELSE 0)
        \* 0.33 <= width / height <= 3.0, on positive integers
        + (IF both /\ 33 * height <= 100 * width /\ width <= 3 * height
           THEN 1 ELSE 0)

AcceptScore == 4

\* soup.header holds the images of the header/nav/banner containers in the
\* order the two nested loops visit them.
RECURSIVE FirstLogoImage(_)
FirstLogoImage(imgs) ==
    IF imgs = <<>> THEN None
    ELSE IF score_logo_image(Head(imgs)) >= AcceptScore /\ Truthy(Head(imgs).src)
         THEN Head(imgs).src
    ELSE FirstLogoImage(Tail(imgs))

\* the best-scoring acceptable image rather than the first
extract_header_logo_best(soup, base_url) ==
    LET imgs == soup.header
        ok   == {i \in 1..Len(imgs) :
                    score_logo_image(imgs[i]) >= AcceptScore /\ Truthy(imgs[i].src)}
    IN  IF ok = {} THEN None
        ELSE urljoin(base_url,
                 imgs[CHOOSE i \in ok : \A j \in ok :
                         score_logo_image(imgs[j]) <= score_logo_image(imgs[i])].src)

extract_header_logo(soup, base_url) ==
    LET s == FirstLogoImage(soup.header)
    IN  IF s # None THEN urljoin(base_url, s) ELSE None

common_paths ==
    << <<"/", "logo", ".svg">>,        <<"/", "logo", ".png">>,
       <<"/assets/", "logo", ".svg">>, <<"/assets/", "logo", ".png">>,
       <<"/images/", "logo", ".svg">>, <<"/images/", "logo", ".png">>,
       <<"/static/", "logo", ".svg">>, <<"/static/", "logo", ".png">> >>

\* probes[i] is what the HEAD request for common_paths[i] meets: "image" (200
\* with an image content type), "other" (any other response), "error" (the
\* request raises, which the loop swallows).
ProbeHits(probes) == {i \in 1..Len(common_paths) : probes[i] = "image"}

try_common_paths(base_url, probes) ==
    IF ProbeHits(probes) = {} THEN None
    ELSE URL(base_url.scheme, base_url.netloc, common_paths[Min(ProbeHits(probes))])

\* number of requests.head calls _try_common_paths makes
HeadCalls(probes) ==
    IF ProbeHits(probes) = {} THEN Len(common_paths) ELSE Min(ProbeHits(probes))

-----------------------------------------------------------------------------
(* LogoExtractor.extract_logo: the cascade *)

OrderOgFirst ==
    <<"og-image", "apple-touch-icon", "favicon", "twitter-image",
      "header-logo", "common-path">>

\* The order in which extract_logo tries the strategies.
Order ==
    <<"apple-touch-icon", "favicon", "og-image", "twitter-image",
      "header-logo", "common-path">>

StrategyResult(s, soup, final_url, probes) ==
    CASE s = "apple-touch-icon" -> extract_apple_touch_icon(soup, final_url)
      [] s = "favicon"          -> extract_favicon(soup, final_url)
      [] s = "og-image"         -> extract_og_image(soup, final_url)
      [] s = "twitter-image"    -> extract_twitter_image(soup, final_url)
      [] s = "header-logo"      -> extract_header_logo(soup, final_url)
      [] s = "common-path"      -> try_common_paths(final_url, probes)

\* an error result that drops the message
ErrorResultNoMessage(msg) ==
    [logo_url |-> None, method |-> "none", status |-> "error", error |-> NoneStr]

ErrorResult(msg) ==
    [logo_url |-> None, method |-> "none", status |-> "error", error |-> msg]

OkResult(u, m) ==
    [logo_url |-> u, method |-> m, status |-> "ok", error |-> NoneStr]

\* The strategies from position k on, tried one after the other; raisesAt
\* names the strategy whose evaluation raises ("none": no strategy raises),
\* which the except clause of extract_logo turns into an error result.
\* Returns the dict extract_logo returns, the strategies evaluated and the
\* number of HEAD requests issued.
RECURSIVE RunCascade(_, _, _, _, _, _)
RunCascade(k, soup, final_url, probes, raisesAt, done) ==
    IF k > Len(Order)
    THEN [res   |-> ErrorResult("No logo found"), evaluated |-> done,
          heads |-> IF "common-path" \in {done[i] : i \in 1..Len(done)}
                    THEN HeadCalls(probes) ELSE 0]
    ELSE IF raisesAt = Order[k]
    THEN [res |-> ErrorResult("exception"), evaluated |-> Append(done, Order[k]),
          heads |-> 0]
    ELSE LET logo_url == StrategyResult(Order[k], soup, final_url, probes)
         IN  IF logo_url # None
             THEN [res |-> OkResult(logo_url, Order[k]),
                   evaluated |-> Append(done, Order[k]),
                   heads |-> IF Order[k] = "common-path" THEN HeadCalls(probes) ELSE 0]
             ELSE RunCascade(k + 1, soup, final_url, probes, raisesAt, Append(done, Order[k]))

HtmlNone(html) == html = None

\* extract_logo from the return of _fetch_page on: `if not html` is true of
\* None and of the empty document alike.
HtmlFalsy(html) == html = None \/ html.empty

extract_after_fetch(html, final_url, probes, raisesAt) ==
    IF HtmlFalsy(html)
    THEN [res |-> ErrorResult("Failed to fetch page"), evaluated |-> <<>>, heads |-> 0]
    ELSE IF raisesAt = "parse"
    THEN [res |-> ErrorResult("exception"), evaluated |-> <<>>, heads |-> 0]
    ELSE RunCascade(1, html, final_url, probes, raisesAt, <<>>)

-----------------------------------------------------------------------------
(* The documents, redirects and probe answers the environment is drawn from *)

A_mv == <<"a", ".", "mv">>
B_mv == <<"b", ".", "mv">>
Cdn  == <<"cdn", ".", "net">>

SiteUrls == {URL("https", A_mv, <<>>), URL("https", B_mv, <<>>)}

\* response.url: the requested URL, or the www host it was redirected to
ResponseUrl(url, redirected) ==
    IF redirected THEN URL(url.scheme, <<"www", ".">> \o url.netloc, <<"/", "home">>)
    ELSE url

Sizes(n)   == [form |-> "WxH", w |-> n]
NoSizes    == [form |-> "absent"]
JunkSizes  == [form |-> "junkxjunk"]
Link(rel, type, sizes, href) == [rel |-> rel, type |-> type, sizes |-> sizes, href |-> href]

Apple120   == Link(<<W_apple>>, "", Sizes(120), PathRef(<<"/", "touch-120", ".png">>))
Apple180   == Link(<<W_apple>>, "", Sizes(180), PathRef(<<"/", "touch-180", ".png">>))
AppleJunk  == Link(<<W_apple>>, "", JunkSizes, PathRef(<<"/", "touch-any", ".png">>))
AppleBare  == Link(<<W_apple>>, "", Sizes(512), EmptyRef)
IcoLink    == Link(<<<<"shortcut">>, W_icon>>, "", NoSizes, PathRef(<<"/", "favicon", ".ico">>))
PngLink    == Link(<<<<"Icon">>>>, "image/png", Sizes(32), PathRef(<<"/", "favicon", ".png">>))
SvgLink    == Link(<<W_icon>>, "image/svg+xml", NoSizes, AbsRef(URL("https", Cdn, <<"/", "mark", ".svg">>)))
SvgBare    == Link(<<W_icon>>, "image/svg+xml", NoSizes, None)

LinkLists ==
    { <<>>, <<IcoLink>>, <<IcoLink, PngLink>>, <<PngLink, SvgLink>>, <<SvgBare, IcoLink>>,
      <<Apple120, Apple180>>, <<AppleBare, IcoLink>>, <<AppleJunk, Apple120, PngLink>>,
      <<AppleBare, Apple120>> }

Meta(c)    == [content |-> c]
OgMetas    == {None, Meta(EmptyRef), Meta(AbsRef(URL("https", Cdn, <<"/", "og", ".jpg">>)))}
TwMetas    == {None, Meta(PathRef(<<"/", "card", ".png">>))}

Dim(form, n) == [form |-> form, n |-> n]
NoDim        == [form |-> "absent", n |-> 0]
Img(alt, src, class, w, h) == [alt |-> alt, src |-> src, class |-> class, width |-> w, height |-> h]

ImgPhoto   == Img(<<"team">>, PathRef(<<"/img/", "team", ".jpg">>), <<>>, Dim("digits", 800), Dim("digits", 200))
ImgLogo    == Img(<<"Acme ", "Logo">>, PathRef(<<"/img/", "logo", ".png">>), <<"site", "-", "logo">>, Dim("px", 120), Dim("int", 60))
ImgClassed == Img(<<>>, PathRef(<<"/img/", "brand", ".svg">>), <<"navbar-", "brand">>, NoDim, NoDim)
ImgSized   == Img(<<"home">>, PathRef(<<"/img/", "logo", ".gif">>), <<>>, Dim("digits", 100), Dim("digits", 50))
ImgNoSrc   == Img(<<"logo">>, None, <<"logo">>, NoDim, NoDim)

HeaderLists ==
    { <<>>, <<ImgPhoto>>, <<ImgPhoto, ImgLogo>>, <<ImgNoSrc, ImgClassed, ImgLogo>>, <<ImgSized>> }

Doc(links, og, tw, header) ==
    [empty |-> FALSE, links |-> links, og |-> og, twitter |-> tw, header |-> header]

\* a 200 response whose body is the empty string
EmptyDoc == [empty |-> TRUE, links |-> <<>>, og |-> None, twitter |-> None, header |-> <<>>]

Pages ==
    {Doc(l, o, t, h) : l \in LinkLists, o \in OgMetas, t \in TwMetas, h \in HeaderLists}
        \cup {EmptyDoc}

NoProbeHits == [i \in 1..Len(common_paths) |-> "other"]
ProbeAnswers ==
    { NoProbeHits,
      [NoProbeHits EXCEPT ![1] = "error", ![3] = "image", ![4] = "image"],
      [NoProbeHits EXCEPT ![1] = "image"],
      [i \in 1..Len(common_paths) |-> "error"] }

RaisePoints == {"none", "parse", "og-image"}

Response(doc, redirected) == [text |-> doc, redirected |-> redirected]
AllResponses == {Response(d, r) : d \in Pages, r \in BOOLEAN}

-----------------------------------------------------------------------------
(* LogoExtractor.extract_logo, step by step *)

MaxRetriesCfg == 2      \* max_retries is drawn from 0..MaxRetriesCfg

ExtractorIdle ==
    /\ attempt = 0 /\ sleeps = <<>> /\ gets = 0 /\ fetched = None
    /\ evaluated = <<>> /\ heads = 0 /\ env = None /\ extraction = None

ExtractorReset ==
    /\ attempt' = 0 /\ sleeps' = <<>> /\ gets' = 0 /\ fetched' = None
    /\ evaluated' = <<>> /\ heads' = 0 /\ env' = None /\ extraction' = None

BackoffLinear(a) == 2 * a

\* time.sleep(2 ** attempt)
Backoff(a) == 2 ^ a

\* One iteration of the retry loop of _fetch_page: a GET that either returns a
\* response passing raise_for_status (drawn from Responses: its document and
\* whether it was redirected), or raises.
FetchAttempt(Responses) ==
    /\ pc = "fetch"
    /\ attempt <= max_retries
    /\ gets' = gets + 1
    /\ net' = net \cup {<<"GET", site.url>>}
    /\ \/ \E r \in Responses :
            /\ fetched' = [html |-> r.text, final_url |-> ResponseUrl(site.url, r.redirected)]
            /\ pc' = "parse"
            /\ UNCHANGED <<attempt, sleeps>>
       \/ IF attempt < max_retries
          THEN /\ sleeps' = Append(sleeps, Backoff(attempt))
               /\ attempt' = attempt + 1
               /\ UNCHANGED <<pc, fetched>>
          ELSE /\ fetched' = [html |-> None, final_url |-> None]
               /\ pc' = "parse"
               /\ UNCHANGED <<attempt, sleeps>>
    /\ UNCHANGED <<persistVars, sideVars, mode, abortCause, sitesRead, existing, idx, results,
                   writes, site, processed, evaluated, heads, env, extraction>>

\* The rest of extract_logo: the check of html, the parse and the cascade.
\* The answers to the HEAD probes and the point where an exception is raised,
\* if any, are the environment's.
ExtractCascade(Probes, Raises) ==
    /\ pc = "parse"
    /\ \E probes \in Probes, raisesAt \in Raises :
         LET x == extract_after_fetch(fetched.html, fetched.final_url, probes, raisesAt)
         IN  /\ extraction' = x.res
             /\ evaluated' = x.evaluated
             /\ heads' = x.heads
             /\ env' = [probes |-> probes, raisesAt |-> raisesAt]
             /\ net' = IF x.heads > 0 THEN net \cup {<<"HEAD", site.url>>} ELSE net
    /\ pc' = "extracted"
    /\ UNCHANGED <<persistVars, sideVars, mode, abortCause, sitesRead, existing, idx, results,
                   writes, site, processed, attempt, sleeps, gets, fetched>>

\* A client calls extract_logo(url) directly.
CallExtractLogo ==
    /\ mode = "extract"
    /\ pc \in {"idle", "extracted"}
    /\ \E url \in SiteUrls :
         site' = [url |-> url, enabled |-> TRUE, fallback_logo_url |-> None]
    /\ pc' = "fetch"
    /\ net' = {}
    /\ ExtractorReset
    /\ UNCHANGED <<persistVars, sideVars, mode, abortCause, sitesRead, existing, idx, results, writes,
                   processed>>

InitExtract ==
    /\ catalog = <<>> /\ logos = <<>> /\ cache = <<>> /\ placeholders = <<>>
    /\ max_retries \in 0..MaxRetriesCfg
    /\ mode = "extract" /\ pc = "idle" /\ abortCause = NoneStr
    /\ sitesRead = <<>> /\ existing = <<>> /\ idx = 0 /\ results = <<>>
    /\ writes = 0 /\ net = {} /\ site = None /\ processed = None
    /\ ExtractorIdle
    /\ calls = <<>> /\ workers = NoWorkers

NextExtract ==
    \/ CallExtractLogo
    \/ FetchAttempt(AllResponses)
    \/ ExtractCascade(ProbeAnswers, RaisePoints)

SpecExtract == InitExtract /\ [][NextExtract]_vars

\* The same calls under few documents, with the scheduling of the retry loop:
\* each request has a timeout and each sleep is finite, so an iteration of
\* the loop that can be taken is taken.
FetchResponses ==
    { Response(EmptyDoc, FALSE),
      Response(Doc(<<Apple120, Apple180>>, None, Meta(PathRef(<<"/", "card", ".png">>)), <<>>), TRUE) }

NextFetch ==
    \/ CallExtractLogo
    \/ FetchAttempt(FetchResponses)
    \/ ExtractCascade(ProbeAnswers, RaisePoints)

SpecFetch ==
    /\ InitExtract /\ [][NextFetch]_vars
    /\ WF_vars(FetchAttempt(FetchResponses))

-----------------------------------------------------------------------------
(* The site catalog, the record store and the two cache directories *)

NamedSite(url, name, enabled, override) ==
    [url |-> url, name |-> name, enabled |-> enabled, fallback_logo_url |-> override]

\* a display name, by the list of words name.strip().split() gives
Name(words) == [words |-> words]

\* The display names of the catalog; the entry of site B has no `name` key.
SiteName(url) ==
    IF url.netloc = <<"a", ".", "mv">> THEN Name(<<"Example", "Corp">>) ELSE [none |-> TRUE]

Site(url, enabled, override) == NamedSite(url, SiteName(url), enabled, override)

IsEnabledStrict(s) == s.enabled = "true"

\* site.get('enabled', True): the key may be missing
IsEnabled(s) == s.enabled # "false"

HasOverrideNever(s) == FALSE

\* site.get('fallback_logo_url'): a missing key is None
HasOverride(s) == Truthy(s.fallback_logo_url)

ManualLogo(url) == URL("https", Cdn, <<"/", "manual", ".png">> \o url.netloc)

UrlA == URL("https", A_mv, <<>>)
UrlB == URL("https", B_mv, <<>>)

\* a second site on the host of site A
UrlAShop == URL("https", A_mv, <<"/", "shop">>)

\* The catalogs a run may meet; url is unique within each of them.  The last
\* one lists two sites of one host.
Catalogs ==
    { <<>>,
      <<Site(UrlA, "true", None)>>,
      <<Site(UrlA, "true", None), Site(UrlB, "true", None)>>,
      <<Site(UrlA, "absent", None), Site(UrlB, "true", ManualLogo(UrlB))>>,
      <<Site(UrlA, "false", None), Site(UrlB, "absent", None)>>,
      <<Site(UrlB, "false", ManualLogo(UrlB)), Site(UrlA, "true", None)>>,
      <<Site(UrlA, "true", None), Site(UrlAShop, "true", None)>> }

Replace(text, from, to) ==
    [i \in 1..Len(text) |-> IF text[i] = from THEN to ELSE text[i]]

Remove(text, tok) == SelectSeq(text, LAMBDA t : t # tok)

\* domain.replace('.', '-')
domain_slug(domain) == Replace(domain, ".", "-")

\* PlaceholderGenerator._slugify
slugify(text) ==
    Replace(Replace(Remove(Remove(text, "https://"), "http://"), "/", "-"), ".", "-")

CachedPath(slug)      == [dir |-> "/static/cached-logos/", name |-> slug, ext |-> ".png"]

PlaceholderPathInCache(slug) == [dir |-> "/static/cached-logos/", name |-> slug, ext |-> ".svg"]

PlaceholderPath(slug) == [dir |-> "/static/placeholders/", name |-> slug, ext |-> ".svg"]

Slugs == {domain_slug(u.netloc) : u \in SiteUrls}

NoFiles == [s \in Slugs |-> [png |-> "absent", webp |-> "absent"]]

Images == {"imgA", "imgB"}

\* existing_logo: the first persisted record of the site, None if there is none
existing_logo(site_url, existing_logos) ==
    LET hits == {i \in 1..Len(existing_logos) : existing_logos[i].site_url = site_url}
    IN  IF hits = {} THEN None ELSE existing_logos[Min(hits)]

Record(site_url, logo_url, status, method, error) ==
    [site_url |-> site_url, logo_url |-> logo_url, status |-> status,
     extraction_method |-> method, error_message |-> error]

ManualRecordAsFallback(s) == Record(s.url, s.fallback_logo_url, "fallback", "manual", NoneStr)

\* _process_site, the branch of a configured override
ManualRecord(s) == Record(s.url, s.fallback_logo_url, "ok", "manual", NoneStr)

KeepsExistingNever(prior) == FALSE

\* _get_fallback_logo keeping a previous logo of status ok only
KeepsExistingOkOnly(prior) ==
    /\ prior # None
    /\ Truthy(prior.logo_url)
    /\ prior.status = "ok"

\* _get_fallback_logo keeps the previous logo in these cases
KeepsExisting(prior) ==
    /\ prior # None
    /\ Truthy(prior.logo_url)
    /\ prior.status \in {"ok", "fallback"}

-----------------------------------------------------------------------------
(* PlaceholderGenerator *)

WwwA_mv == <<"www", ".", "a", ".", "mv">>

\* a host in which 'www.' comes twice
WwwWww_mv == <<"www", ".", "www", ".", "mv">>

\* the domains placeholders are generated for
Domains == {A_mv, B_mv, WwwA_mv, WwwWww_mv}

\* a domain passed where a display name is expected: one word
DomainText(domain) ==
    CASE domain = A_mv    -> "a.mv"
      [] domain = B_mv    -> "b.mv"
      [] domain = WwwA_mv -> "www.a.mv"
      [] domain = WwwWww_mv -> "www.www.mv"

\* w[0].upper()
InitialOf(word) ==
    CASE word = "Example"  -> "E"
      [] word = "Corp"     -> "C"
      [] word = "acme"     -> "A"
      [] word = "Acme"     -> "A"
      [] word = "labs"     -> "L"
      [] word = "ltd"      -> "L"
      [] word = "a.mv"     -> "A"
      [] word = "b.mv"     -> "B"
      [] word = "www.a.mv" -> "W"
      [] word = "www.www.mv" -> "W"

\* label[:2].upper()
Upper2(label) ==
    CASE label = "a"   -> "A"
      [] label = "b"   -> "B"
      [] label = "www" -> "WW"
      [] label = "mv"  -> "MV"

\* domain.replace('www.', '')
RECURSIVE StripWww(_)
StripWww(domain) ==
    IF Len(domain) < 2 THEN domain
    ELSE IF domain[1] = "www" /\ domain[2] = "." THEN StripWww(SubSeq(domain, 3, Len(domain)))
    ELSE <<domain[1]>> \o StripWww(Tail(domain))

\* _extract_initials: the initials of the first two words of the name, or,
\* when the name has no word, the first two letters of the domain's first
\* label.  site_name is the list site_name.strip().split() gives.
extract_initials(site_name, domain) ==
    LET words    == SubSeq(site_name, 1, IF Len(site_name) < 2 THEN Len(site_name) ELSE 2)
        initials == [i \in 1..Len(words) |-> InitialOf(words[i])]
    IN  IF initials # <<>> THEN initials
        ELSE <<Upper2(Head(StripWww(domain)))>>

\* no file of that name in the directory
NoFile == [svg |-> "absent"]

\* _domain_to_hue with a hue that moves with the files already generated
domain_to_hue_counting(domain) ==
    (Cardinality({sl \in DOMAIN placeholders : placeholders[sl] # NoFile}) * 120
        + Len(domain)) % 360

\* _domain_to_hue: int(md5(domain).hexdigest(), 16) % 360, which is 143 for
\* a.mv, 216 for b.mv, 9 for www.a.mv and 218 for www.www.mv.
domain_to_hue(domain) ==
    CASE domain = A_mv    -> 143
      [] domain = B_mv    -> 216
      [] domain = WwwA_mv -> 9
      [] domain = WwwWww_mv -> 218

\* the SVG text, by the three values interpolated into the template
Svg(initials, hue) ==
    [initials |-> initials, bg_color |-> <<"hsl", hue, 40, 85>>,
     text_color |-> <<"hsl", hue, 40, 35>>]

PlaceholderSlugs == {slugify(d) : d \in Domains}

NoPlaceholders == [sl \in PlaceholderSlugs |-> NoFile]

\* generate_placeholder writing the file and returning nothing
generate_placeholder_no_return(site_name, domain) ==
    [slug |-> slugify(domain),
     svg  |-> Svg(extract_initials(site_name, domain), domain_to_hue(domain)),
     path |-> None]

\* generate_placeholder: the file written (slug, svg) and the path returned
generate_placeholder(site_name, domain) ==
    [slug |-> slugify(domain),
     svg  |-> Svg(extract_initials(site_name, domain), domain_to_hue(domain)),
     path |-> PlaceholderPath(slugify(domain))]

\* one entry of `calls`
Call(site_name, domain, g) ==
    [site_name |-> site_name, domain |-> domain, path |-> g.path,
     file |-> g.slug, content |-> g.svg]

\* site.get('name', domain), split into words
display_name(s, domain) ==
    IF s.name = None THEN <<DomainText(domain)>> ELSE s.name.words

-----------------------------------------------------------------------------
(* LogoRefresher, step by step *)

RunIdle == pc \in {"idle", "done", "aborted"} /\ mode # "extract"

SpliceDropsOthers(old, rec) == <<rec>>

SpliceAppends(old, rec) == Append(old, rec)

\* refresh_single: drop the records of the site, append the new one
Splice(old, rec) == Append(SelectSeq(old, LAMBDA l : l.site_url # rec.site_url), rec)

DeliverAndSave(rec) ==
    IF mode = "all"
    THEN /\ results' = Append(results, rec)
         /\ idx' = idx + 1
         /\ pc' = "loop"
         /\ logos' = Append(results, rec)
         /\ writes' = writes + 1
    ELSE /\ logos' = Splice(logos, rec)
         /\ writes' = writes + 1
         /\ results' = <<rec>>
         /\ pc' = "done"
         /\ UNCHANGED idx

\* What the caller of _process_site does with the record returned:
\* refresh_all appends it to results; refresh_single reloads logos.json,
\* drops the records of the site, appends the record and writes the file.
Deliver(rec) ==
    IF mode = "all"
    THEN /\ results' = Append(results, rec)
         /\ idx' = idx + 1
         /\ pc' = "loop"
         /\ UNCHANGED <<logos, writes>>
    ELSE /\ logos' = Splice(logos, rec)
         /\ writes' = writes + 1
         /\ results' = <<rec>>
         /\ pc' = "done"
         /\ UNCHANGED idx

\* _process_site up to the call of extract_logo, for the site s.
EnterSite(s) ==
    /\ site' = s
    /\ processed' = None
    /\ ExtractorReset
    /\ IF HasOverride(s)
       THEN Deliver(ManualRecord(s))
       ELSE /\ pc' = "fetch"
            /\ UNCHANGED <<logos, writes, results, idx>>

CatalogUnreadableTruncates ==
    /\ sitesRead' = <<>>
    /\ existing' = <<>>
    /\ pc' = "aborted"
    /\ abortCause' = "catalog unreadable"
    /\ logos' = <<>>
    /\ UNCHANGED <<catalog, cache, placeholders, max_retries, workers>>

\* refresh_all, `with open(self.sites_path) ... json.load`: the catalog cannot
\* be read and the exception leaves refresh_all.
CatalogUnreadable ==
    /\ sitesRead' = <<>>
    /\ existing' = <<>>
    /\ pc' = "aborted"
    /\ abortCause' = "catalog unreadable"
    /\ UNCHANGED <<persistVars, workers>>

\* refresh_all: read the catalog and the persisted records.
StartRefreshAll ==
    /\ RunIdle
    /\ mode' = "all"
    /\ net' = {}
    /\ calls' = <<>>
    /\ writes' = 0
    /\ results' = <<>>
    /\ idx' = 0
    /\ site' = None
    /\ processed' = None
    /\ ExtractorReset
    /\ \/ /\ sitesRead' = catalog
          /\ existing' = logos
          /\ pc' = "loop"
          /\ abortCause' = NoneStr
          /\ UNCHANGED <<persistVars, workers>>
       \/ CatalogUnreadable

\* refresh_all: one iteration of the loop over sites.
LoopSite ==
    /\ mode = "all" /\ pc = "loop"
    /\ idx < Len(sitesRead)
    /\ LET s == sitesRead[idx + 1]
       IN  IF ~IsEnabled(s)
           THEN /\ idx' = idx + 1
                /\ UNCHANGED <<pc, results, logos, writes, site, processed, extractVars>>
           ELSE EnterSite(s)
    /\ UNCHANGED <<catalog, cache, placeholders, max_retries, sideVars, mode, abortCause,
                   sitesRead, existing, net>>

\* refresh_all: the loop is over; write logos.json.
WriteAll ==
    /\ mode = "all" /\ pc = "loop"
    /\ idx = Len(sitesRead)
    /\ logos' = results
    /\ writes' = writes + 1
    /\ pc' = "done"
    /\ UNCHANGED <<catalog, cache, placeholders, max_retries, sideVars, mode, abortCause, sitesRead,
                   existing, idx, results, net, site, processed, extractVars>>

\* the ValueError of refresh_single, taking the record of the url out of
\* logos.json on its way
SiteNotFoundDropsRecord(site_url) ==
    /\ existing' = <<>> /\ site' = None
    /\ results' = <<>> /\ writes' = 0
    /\ pc' = "aborted"
    /\ abortCause' = "Site not found"
    /\ logos' = SelectSeq(logos, LAMBDA l : l.site_url # site_url)

\* refresh_single: no entry of the catalog has the url; ValueError is raised
\* before logos.json is read
SiteNotFound(site_url) ==
    /\ existing' = <<>> /\ site' = None
    /\ results' = <<>> /\ writes' = 0
    /\ pc' = "aborted"
    /\ abortCause' = "Site not found"
    /\ UNCHANGED logos

\* refresh_single(site_url): read the catalog, find the site (the first entry
\* with that url), read the persisted records and enter _process_site.
StartRefreshSingle ==
    /\ RunIdle
    /\ mode' = "single"
    /\ net' = {}
    /\ calls' = <<>>
    /\ idx' = 0
    /\ processed' = None
    /\ ExtractorReset
    /\ \E site_url \in SiteUrls :
         \/ /\ sitesRead' = <<>> /\ existing' = <<>> /\ site' = None
            /\ results' = <<>> /\ writes' = 0
            /\ pc' = "aborted"
            /\ abortCause' = "catalog unreadable"
            /\ UNCHANGED logos
         \/ LET hits == {i \in 1..Len(catalog) : catalog[i].url = site_url}
            IN  /\ sitesRead' = catalog
                /\ IF hits = {}
                   THEN SiteNotFound(site_url)
                   ELSE LET s == catalog[Min(hits)]
                        IN  /\ existing' = logos
                            /\ site' = s
                            /\ abortCause' = NoneStr
                            /\ IF HasOverride(s)
                               THEN /\ logos' = Splice(logos, ManualRecord(s))
                                    /\ results' = <<ManualRecord(s)>>
                                    /\ writes' = 1
                                    /\ pc' = "done"
                               ELSE /\ results' = <<>> /\ writes' = 0
                                    /\ pc' = "fetch"
                                    /\ UNCHANGED logos
    /\ UNCHANGED <<catalog, cache, placeholders, max_retries, workers>>

\* What requests.get and Image.open give process_logo: nothing usable (the
\* request failed, the body is too large, is no image or does not decode), or
\* an image of some content and decoded size.
FailedDownload == [kind |-> "fail"]
Image(content, w, h) == [kind |-> "image", content |-> content, width |-> w, height |-> h]

MinDimension == 32
MaxDimension == 2000

RejectsDimensionsBothAxes(w, h) ==
    (w < MinDimension /\ h < MinDimension) \/ (w > MaxDimension /\ h > MaxDimension)

\* the two dimension checks of process_logo, each raising ValueError
RejectsDimensions(w, h) ==
    (w < MinDimension \/ h < MinDimension) \/ (w > MaxDimension \/ h > MaxDimension)

\* How a call of process_logo ends.  "ok": both files written.  "reject":
\* download, validation or decoding failed, nothing written.  "png_fail":
\* saving the PNG raised.  "webp_fail": the PNG was written and saving the
\* WebP raised.  `save` is what the file system lets the two saves do.
process_logo_outcome(download, save) ==
    IF download.kind = "fail" THEN "reject"
    ELSE IF RejectsDimensions(download.width, download.height) THEN "reject"
    ELSE save

\* What process_logo leaves in the two files of a cache key.  A save that
\* raises leaves its file as it was (it could not be opened) or truncated
\* (`torn`).
process_logo_files(old, outcome, img, torn) ==
    CASE outcome = "ok"        -> [png |-> img, webp |-> img]
      [] outcome = "reject"    -> old
      [] outcome = "png_fail"  -> [old EXCEPT !.png = IF torn THEN "partial" ELSE @]
      [] outcome = "webp_fail" -> [png |-> img, webp |-> IF torn THEN "partial" ELSE old.webp]

\* the dict process_logo returns, or the exception it re-raises
process_logo(download, save, slug) ==
    IF process_logo_outcome(download, save) = "ok"
    THEN [outcome |-> "ok", cached_path |-> CachedPath(slug), download |-> download, save |-> save]
    ELSE [outcome |-> "failed", cached_path |-> None, download |-> download, save |-> save]

\* _process_site, from the return of extract_logo to the end of the try block
ProcessLogo(Downloads, Saves) ==
    /\ mode \in {"all", "single"} /\ pc = "extracted"
    /\ IF extraction.status = "ok" /\ Truthy(extraction.logo_url)
       THEN \E download \in Downloads, save \in Saves, torn \in BOOLEAN :
              LET slug == domain_slug(site.url.netloc)
              IN  /\ cache' = [cache EXCEPT ![slug] =
                        process_logo_files(@, process_logo_outcome(download, save),
                                           IF download.kind = "image" THEN download.content
                                           ELSE "absent", torn)]
                  /\ processed' = process_logo(download, save, slug)
                  /\ net' = net \cup {<<"IMG", site.url>>}
       ELSE /\ processed' = [outcome |-> "skipped", cached_path |-> None]
            /\ UNCHANGED <<cache, net>>
    /\ pc' = "resolve"
    /\ attempt' = 0 /\ sleeps' = <<>> /\ gets' = 0 /\ fetched' = None
    /\ evaluated' = <<>> /\ heads' = 0 /\ env' = None
    /\ UNCHANGED <<catalog, logos, placeholders, max_retries, sideVars, mode, abortCause, sitesRead,
                   existing, idx, results, writes, site, extraction>>

\* _process_site, from the end of the try block on, with _get_fallback_logo:
\* the record of a processed logo, or of the previous logo kept, or of a
\* placeholder generated now.  generate_placeholder writes a file, and a
\* write that raises is caught nowhere: it ends the run.
ResolveRecord(PlaceholderOutcomes) ==
    /\ mode \in {"all", "single"} /\ pc = "resolve"
    /\ LET prior  == existing_logo(site.url, existing)
           domain == site.url.netloc
       IN  IF processed.outcome = "ok"
           THEN /\ Deliver(Record(site.url, processed.cached_path, "ok",
                                  extraction.method, NoneStr))
                /\ UNCHANGED <<placeholders, calls, net, abortCause>>
           ELSE IF KeepsExisting(prior)
           THEN /\ Deliver(Record(site.url, prior.logo_url, prior.status,
                                  extraction.method, extraction.error))
                /\ UNCHANGED <<placeholders, calls, net, abortCause>>
           ELSE /\ net' = net \cup {<<"SVG", site.url>>}
                /\ \E o \in PlaceholderOutcomes :
                     LET g == generate_placeholder(display_name(site, domain), domain)
                     IN  IF o = "written"
                         THEN /\ placeholders' = [placeholders EXCEPT ![g.slug] = g.svg]
                              /\ calls' = Append(calls, Call(display_name(site, domain), domain, g))
                              /\ Deliver(Record(site.url, g.path, "fallback",
                                                extraction.method, extraction.error))
                              /\ UNCHANGED abortCause
                         ELSE /\ pc' = "aborted"
                              /\ abortCause' = "placeholder write failed"
                              /\ UNCHANGED <<placeholders, calls, logos, writes, results, idx>>
    /\ processed' = None
    /\ extraction' = None
    /\ UNCHANGED <<catalog, cache, max_retries, workers, mode, sitesRead, existing, site,
                   attempt, sleeps, gets, fetched, evaluated, heads, env>>

-----------------------------------------------------------------------------
(* The refresher under a small environment *)

DefaultMaxRetries == 2

RefreshResponses ==
    { Response(Doc(<<>>, None, None, <<>>), FALSE),
      Response(Doc(<<IcoLink>>, Meta(AbsRef(URL("https", Cdn, <<"/", "og", ".jpg">>))), None, <<>>), TRUE) }

RefreshProbes == {NoProbeHits}
RefreshRaises == {"none"}
RefreshDownloads == {Image("imgA", 64, 64), FailedDownload}
RefreshSaves == {"ok"}
PlaceholderOutcomes == {"written", "raised"}

ScrapedRecord(url) ==
    Record(url, CachedPath(domain_slug(url.netloc)), "ok", "og-image", NoneStr)

Store(c, l, f, p) == [catalog |-> c, logos |-> l, cache |-> f, placeholders |-> p]

\* The stores a run may start from: a fresh installation of each catalog, and
\* two stores whose records were made under an earlier version of the catalog
\* (site B was scraped before its override was configured; the override of
\* site B was removed after a refresh).
Stores ==
    {Store(c, <<>>, NoFiles, NoPlaceholders) : c \in Catalogs}
    \cup { Store(<<Site(UrlA, "absent", None), Site(UrlB, "true", ManualLogo(UrlB))>>,
                 <<ScrapedRecord(UrlB)>>,
                 [NoFiles EXCEPT ![domain_slug(B_mv)] = [png |-> "imgA", webp |-> "imgA"]],
                 NoPlaceholders),
           Store(<<Site(UrlA, "true", None), Site(UrlB, "true", None)>>,
                 <<ManualRecord(Site(UrlB, "true", ManualLogo(UrlB)))>>,
                 NoFiles,
                 NoPlaceholders) }

Init ==
    /\ \E st \in Stores :
         /\ catalog = st.catalog /\ logos = st.logos
         /\ cache = st.cache /\ placeholders = st.placeholders
    /\ max_retries = DefaultMaxRetries
    /\ mode = "none" /\ pc = "idle" /\ abortCause = NoneStr
    /\ sitesRead = <<>> /\ existing = <<>> /\ idx = 0 /\ results = <<>>
    /\ writes = 0 /\ net = {} /\ site = None /\ processed = None
    /\ ExtractorIdle
    /\ calls = <<>> /\ workers = NoWorkers

Next ==
    \/ StartRefreshAll
    \/ LoopSite
    \/ WriteAll
    \/ StartRefreshSingle
    \/ FetchAttempt(RefreshResponses)
    \/ ExtractCascade(RefreshProbes, RefreshRaises)
    \/ ProcessLogo(RefreshDownloads, RefreshSaves)
    \/ ResolveRecord(PlaceholderOutcomes)

Spec == Init /\ [][Next]_vars

-----------------------------------------------------------------------------
(* The refresher while no logo can be obtained *)

\* downloads that make process_logo raise: no image, or one too small
FailingDownloads == {FailedDownload, Image("imgA", 20, 20)}

\* stores left by earlier runs that had obtained logos: both sites scraped;
\* site B with the logo of an override since removed; two sites on one host,
\* the first scraped
FailingStores ==
    { Store(<<Site(UrlA, "true", None), Site(UrlB, "absent", None)>>,
            <<ScrapedRecord(UrlA), ScrapedRecord(UrlB)>>,
            [sl \in Slugs |-> [png |-> "imgA", webp |-> "imgA"]],
            NoPlaceholders),
      Store(<<Site(UrlA, "true", None), Site(UrlB, "true", None)>>,
            <<ManualRecord(Site(UrlB, "true", ManualLogo(UrlB)))>>,
            NoFiles,
            NoPlaceholders),
      Store(<<Site(UrlA, "true", None), Site(UrlAShop, "true", None)>>,
            <<ScrapedRecord(UrlA)>>,
            [NoFiles EXCEPT ![domain_slug(A_mv)] = [png |-> "imgA", webp |-> "imgA"]],
            NoPlaceholders) }

InitFailing ==
    /\ \E st \in FailingStores :
         /\ catalog = st.catalog /\ logos = st.logos
         /\ cache = st.cache /\ placeholders = st.placeholders
    /\ max_retries = DefaultMaxRetries
    /\ mode = "none" /\ pc = "idle" /\ abortCause = NoneStr
    /\ sitesRead = <<>> /\ existing = <<>> /\ idx = 0 /\ results = <<>>
    /\ writes = 0 /\ net = {} /\ site = None /\ processed = None
    /\ ExtractorIdle
    /\ calls = <<>> /\ workers = NoWorkers

\* every extraction ends in an error result or in a download that fails
NextFailing ==
    \/ StartRefreshAll
    \/ LoopSite
    \/ WriteAll
    \/ StartRefreshSingle
    \/ FetchAttempt(RefreshResponses)
    \/ ExtractCascade(RefreshProbes, RefreshRaises)
    \/ ProcessLogo(FailingDownloads, RefreshSaves)
    \/ ResolveRecord(PlaceholderOutcomes)

SpecFailing == InitFailing /\ [][NextFailing]_vars

-----------------------------------------------------------------------------
(* The admin endpoints that edit the catalog (app/main.py) *)

\* request.form of add-site and delete-site: EmptyField is a url or override
\* field left empty, Name(<<>>) an empty name
EmptyField == [field |-> "empty"]
Form(url, name, override) == [url |-> url, name |-> name, fallback_logo_url |-> override]

\* the urls the administrator submits
EditUrls == {UrlB}

SiteForms ==
    {Form(u, Name(<<"Acme">>), EmptyField) : u \in EditUrls}
        \cup {Form(u, Name(<<"Acme">>), ManualLogo(u)) : u \in EditUrls}
        \cup {Form(EmptyField, Name(<<"Acme">>), EmptyField), Form(UrlA, Name(<<>>), EmptyField)}

\* add_site without the test for a url the catalog has
add_site_unchecked(sites, form) ==
    IF form.url = EmptyField \/ form.name.words = <<>> THEN sites
    ELSE Append(sites, NamedSite(form.url, form.name, "true",
                                 IF form.fallback_logo_url # EmptyField
                                 THEN form.fallback_logo_url ELSE None))

\* add_site: rejects an empty url or name and a url the catalog has; appends
\* the site, enabled, with the override if the field is filled in.
add_site(sites, form) ==
    IF form.url = EmptyField \/ form.name.words = <<>> THEN sites
    ELSE IF \E i \in 1..Len(sites) : sites[i].url = form.url THEN sites
    ELSE Append(sites, NamedSite(form.url, form.name, "true",
                                 IF form.fallback_logo_url # EmptyField
                                 THEN form.fallback_logo_url ELSE None))

\* delete_site: drops every entry of the url
delete_site(sites, url) ==
    IF url = EmptyField THEN sites
    ELSE SelectSeq(sites, LAMBDA s : s.url # url)

\* A run reads sites.json once, when it starts, so an edit made during a run
\* has the effect of the same edit made right after it: the edits are taken
\* between runs.
AddSite(Forms) ==
    /\ RunIdle
    /\ \E form \in Forms : catalog' = add_site(catalog, form)
    /\ UNCHANGED <<logos, cache, placeholders, max_retries, sideVars, runVars, extractVars>>

DeleteSite(Urls) ==
    /\ RunIdle
    /\ \E url \in Urls \cup {EmptyField} : catalog' = delete_site(catalog, url)
    /\ UNCHANGED <<logos, cache, placeholders, max_retries, sideVars, runVars, extractVars>>

\* The refresher beside an administrator who edits the catalog,
\* starting from a fresh installation with one site.
InitEdit ==
    /\ catalog = <<Site(UrlB, "true", None)>> /\ logos = <<>>
    /\ cache = NoFiles /\ placeholders = NoPlaceholders
    /\ max_retries = DefaultMaxRetries
    /\ mode = "none" /\ pc = "idle" /\ abortCause = NoneStr
    /\ sitesRead = <<>> /\ existing = <<>> /\ idx = 0 /\ results = <<>>
    /\ writes = 0 /\ net = {} /\ site = None /\ processed = None
    /\ ExtractorIdle
    /\ calls = <<>> /\ workers = NoWorkers

NextEdit ==
    \/ AddSite(SiteForms)
    \/ DeleteSite(EditUrls)
    \/ StartRefreshAll
    \/ LoopSite
    \/ WriteAll
    \/ StartRefreshSingle
    \/ FetchAttempt(RefreshResponses)
    \/ ExtractCascade(RefreshProbes, RefreshRaises)
    \/ ProcessLogo(RefreshDownloads, RefreshSaves)
    \/ ResolveRecord(PlaceholderOutcomes)

SpecEdit == InitEdit /\ [][NextEdit]_vars

-----------------------------------------------------------------------------
(* ImageProcessor.process_logo called on its own *)

\* decoded sizes, as <<width, height>>
ImageSizes ==
    { <<20, 20>>, <<2500, 1200>>, <<31, 400>>, <<400, 31>>, <<32, 32>>, <<400, 400>>,
      <<2000, 2000>>, <<2001, 400>>, <<400, 2001>>, <<32, 2000>> }

AllDownloads ==
    {Image(c, sz[1], sz[2]) : c \in Images, sz \in ImageSizes} \cup {FailedDownload}

AllSaves == {"ok", "png_fail", "webp_fail"}

\* process_logo(logo_url, domain_slug), from the call to the return or raise
CallProcessLogo ==
    /\ mode = "process"
    /\ \E slug \in Slugs, download \in AllDownloads, save \in AllSaves, torn \in BOOLEAN :
         /\ cache' = [cache EXCEPT ![slug] =
               process_logo_files(@, process_logo_outcome(download, save),
                                  IF download.kind = "image" THEN download.content
                                  ELSE "absent", torn)]
         /\ processed' = process_logo(download, save, slug)
    /\ UNCHANGED <<catalog, logos, placeholders, max_retries, sideVars, mode, pc, abortCause,
                   sitesRead, existing, idx, results, writes, net, site, extractVars>>

InitProcess ==
    /\ catalog = <<>> /\ logos = <<>> /\ cache = NoFiles /\ placeholders = NoPlaceholders
    /\ max_retries = DefaultMaxRetries
    /\ mode = "process" /\ pc = "idle" /\ abortCause = NoneStr
    /\ sitesRead = <<>> /\ existing = <<>> /\ idx = 0 /\ results = <<>>
    /\ writes = 0 /\ net = {} /\ site = None /\ processed = None
    /\ ExtractorIdle
    /\ calls = <<>> /\ workers = NoWorkers

NextProcess == CallProcessLogo

SpecProcess == InitProcess /\ [][NextProcess]_vars

-----------------------------------------------------------------------------
(* PlaceholderGenerator.generate_placeholder called on its own *)

MaxCalls == 3      \* the log of calls is kept up to this length

\* display names, as lists of words; the last is the empty or blank name
Names == { <<"Example", "Corp">>, <<"acme", "labs", "ltd">>, <<>> }

\* generate_placeholder(site_name, domain), from the call to the return or
\* to the exception of a file that cannot be opened
CallGeneratePlaceholder ==
    /\ mode = "placeholder"
    /\ Len(calls) < MaxCalls
    /\ \E site_name \in Names, domain \in Domains, o \in PlaceholderOutcomes :
         LET g == generate_placeholder(site_name, domain)
         IN  IF o = "written"
             THEN /\ placeholders' = [placeholders EXCEPT ![g.slug] = g.svg]
                  /\ calls' = Append(calls, Call(site_name, domain, g))
             ELSE UNCHANGED <<placeholders, calls>>
    /\ UNCHANGED <<catalog, logos, cache, max_retries, workers, runVars, extractVars>>

InitPlaceholder ==
    /\ catalog = <<>> /\ logos = <<>> /\ cache = NoFiles /\ placeholders = NoPlaceholders
    /\ max_retries = DefaultMaxRetries
    /\ mode = "placeholder" /\ pc = "idle" /\ abortCause = NoneStr
    /\ sitesRead = <<>> /\ existing = <<>> /\ idx = 0 /\ results = <<>>
    /\ writes = 0 /\ net = {} /\ site = None /\ processed = None
    /\ ExtractorIdle
    /\ calls = <<>> /\ workers = NoWorkers

NextPlaceholder == CallGeneratePlaceholder

SpecPlaceholder == InitPlaceholder /\ [][NextPlaceholder]_vars

-----------------------------------------------------------------------------
(* The admin endpoints add_site and delete_site on their own *)

\* the urls submitted to the two endpoints
CatalogUrls == {UrlA, UrlB, UrlAShop}

CatalogForms ==
    {Form(u, Name(<<"Acme">>), EmptyField) : u \in CatalogUrls}
        \cup {Form(u, Name(<<"Acme">>), ManualLogo(u)) : u \in CatalogUrls}
        \cup {Form(EmptyField, Name(<<"Acme">>), EmptyField), Form(UrlA, Name(<<>>), EmptyField)}

\* sites.json as installed: empty, or one or two sites
InitCatalog ==
    /\ catalog \in {<<>>, <<Site(UrlA, "true", None), Site(UrlB, "false", None)>>,
                    <<Site(UrlAShop, "true", ManualLogo(UrlAShop))>>}
    /\ logos = <<>>
    /\ cache = NoFiles /\ placeholders = NoPlaceholders
    /\ max_retries = DefaultMaxRetries
    /\ mode = "catalog" /\ pc = "idle" /\ abortCause = NoneStr
    /\ sitesRead = <<>> /\ existing = <<>> /\ idx = 0 /\ results = <<>>
    /\ writes = 0 /\ net = {} /\ site = None /\ processed = None
    /\ ExtractorIdle
    /\ calls = <<>> /\ workers = NoWorkers

NextCatalog ==
    \/ AddSite(CatalogForms)
    \/ DeleteSite(CatalogUrls)

SpecCatalog == InitCatalog /\ [][NextCatalog]_vars

-----------------------------------------------------------------------------
(* LogoExtractor._extract_header_logo called on its own *)

\* the attributes of an <img>, each over the values that change the score
ImgAlts    == { <<>>, <<"Acme ", "Logo">>, <<"web", "site">>, <<"team">> }
ImgSrcs    == { None, EmptyRef, PathRef(<<"/img/", "team", ".jpg">>),
                PathRef(<<"/img/", "Brand", ".svg">>) }
ImgClasses == { <<>>, <<"site">>, <<"site", "-", "logo">>, <<"navbar-", "brand">> }
ImgDims    ==
    { <<NoDim, NoDim>>, <<Dim("digits", 120), NoDim>>, <<Dim("other", 120), Dim("digits", 60)>>,
      <<Dim("int", 0), Dim("digits", 50)>>,
      <<Dim("digits", 59), Dim("digits", 40)>>,  <<Dim("px", 60), Dim("digits", 40)>>,
      <<Dim("digits", 60), Dim("digits", 39)>>,  <<Dim("digits", 400), Dim("px", 400)>>,
      <<Dim("digits", 401), Dim("digits", 400)>>, <<Dim("digits", 400), Dim("digits", 401)>>,
      <<Dim("digits", 33), Dim("digits", 100)>>, <<Dim("digits", 32), Dim("digits", 100)>>,
      <<Dim("digits", 300), Dim("digits", 100)>>, <<Dim("digits", 301), Dim("digits", 100)>> }

ScoredImages ==
    {Img(a, r, c, d[1], d[2]) : a \in ImgAlts, r \in ImgSrcs, c \in ImgClasses, d \in ImgDims}

\* the images of lists of several: below, at and above the threshold, with
\* and without src
ListedImages == {ImgPhoto, ImgLogo, ImgClassed, ImgSized, ImgNoSrc}

\* the images of the containers, in the order the loops visit them
HeaderInputs ==
    {<<>>} \cup {<<i>> : i \in ScoredImages}
           \cup {<<i, j>> : i \in ListedImages, j \in ListedImages}
           \cup {<<i, j, k>> : i \in ListedImages, j \in ListedImages, k \in ListedImages}

\* _extract_header_logo(soup, base_url), from the call to the return
CallExtractHeaderLogo ==
    /\ mode = "header"
    /\ pc = "idle"
    /\ \E header \in HeaderInputs, redirected \in BOOLEAN :
         LET soup     == Doc(<<>>, None, None, header)
             base_url == ResponseUrl(UrlA, redirected)
         IN  /\ fetched' = [html |-> soup, final_url |-> base_url]
             /\ extraction' = [logo_url |-> extract_header_logo(soup, base_url)]
    /\ pc' = "extracted"
    /\ UNCHANGED <<persistVars, sideVars, mode, abortCause, sitesRead, existing, idx, results,
                   writes, net, site, processed, attempt, sleeps, gets, evaluated, heads, env>>

InitHeader ==
    /\ catalog = <<>> /\ logos = <<>> /\ cache = NoFiles /\ placeholders = NoPlaceholders
    /\ max_retries = DefaultMaxRetries
    /\ mode = "header" /\ pc = "idle" /\ abortCause = NoneStr
    /\ sitesRead = <<>> /\ existing = <<>> /\ idx = 0 /\ results = <<>>
    /\ writes = 0 /\ net = {} /\ site = None /\ processed = None
    /\ ExtractorIdle
    /\ calls = <<>> /\ workers = NoWorkers

NextHeader == CallExtractHeaderLogo

SpecHeader == InitHeader /\ [][NextHeader]_vars

-----------------------------------------------------------------------------
(* The admin endpoint scrape_now and the refresh threads it starts *)

MaxThreads == 2      \* scrape_now is requested at most this many times

\* a thread whose start() was called and whose run_scraper has not begun
Thread == [pc |-> "started", sites |-> <<>>, existing |-> <<>>, results |-> <<>>, idx |-> 0]

\* what a thread's _process_site meets: the page is fetched and its og:image
\* processed, or the page cannot be fetched
ThreadScrapes == {"scraped", "failed"}

\* _process_site as one step: the record returned and the files written
process_site(s, existing_logos, scrape) ==
    LET domain == s.url.netloc
        slug   == domain_slug(domain)
        prior  == existing_logo(s.url, existing_logos)
        g      == generate_placeholder(display_name(s, domain), domain)
    IN  IF HasOverride(s)
        THEN [rec |-> ManualRecord(s), image |-> FALSE, placeholder |-> FALSE]
        ELSE IF scrape = "scraped"
        THEN [rec |-> Record(s.url, CachedPath(slug), "ok", "og-image", NoneStr),
              image |-> TRUE, placeholder |-> FALSE]
        ELSE IF KeepsExisting(prior)
        THEN [rec |-> Record(s.url, prior.logo_url, prior.status, "none", "Failed to fetch page"),
              image |-> FALSE, placeholder |-> FALSE]
        ELSE [rec |-> Record(s.url, g.path, "fallback", "none", "Failed to fetch page"),
              image |-> FALSE, placeholder |-> TRUE]

\* scrape_now: start a daemon thread that runs refresh_all, and return.
\* Nothing is consulted about threads started earlier.
ScrapeNow ==
    /\ mode = "admin"
    /\ Len(workers) < MaxThreads
    /\ workers' = Append(workers, Thread)
    /\ UNCHANGED <<persistVars, runVars, extractVars, calls>>

\* run_scraper begins: refresh_all reads the catalog and the persisted
\* records; an unreadable catalog ends the thread in the except clause.
ThreadStart(t) ==
    /\ workers[t].pc = "started"
    /\ \/ workers' = [workers EXCEPT ![t].pc = "loop", ![t].sites = catalog,
                                     ![t].existing = logos]
       \/ workers' = [workers EXCEPT ![t].pc = "finished"]
    /\ UNCHANGED <<persistVars, runVars, extractVars, calls>>

\* one iteration of the loop of refresh_all in thread t
ThreadSite(t) ==
    /\ workers[t].pc = "loop"
    /\ workers[t].idx < Len(workers[t].sites)
    /\ LET s == workers[t].sites[workers[t].idx + 1]
       IN  IF ~IsEnabled(s)
           THEN /\ workers' = [workers EXCEPT ![t].idx = @ + 1]
                /\ UNCHANGED <<cache, placeholders, calls>>
           ELSE \E scrape \in ThreadScrapes, o \in PlaceholderOutcomes :
                  LET out    == process_site(s, workers[t].existing, scrape)
                      domain == s.url.netloc
                      g      == generate_placeholder(display_name(s, domain), domain)
                  IN  /\ cache' = IF out.image
                                  THEN [cache EXCEPT ![domain_slug(domain)] =
                                           [png |-> "imgA", webp |-> "imgA"]]
                                  ELSE cache
                      /\ IF out.placeholder /\ o = "raised"
                         THEN /\ workers' = [workers EXCEPT ![t].pc = "finished"]
                              /\ UNCHANGED <<placeholders, calls>>
                         ELSE /\ workers' = [workers EXCEPT
                                    ![t].results = Append(@, out.rec), ![t].idx = @ + 1]
                              /\ IF out.placeholder
                                 THEN /\ placeholders' = [placeholders EXCEPT ![g.slug] = g.svg]
                                      /\ calls' = Append(calls,
                                            Call(display_name(s, domain), domain, g))
                                 ELSE UNCHANGED <<placeholders, calls>>
    /\ UNCHANGED <<catalog, logos, max_retries, runVars, extractVars>>

\* the loop of thread t is over: it writes logos.json and ends
ThreadWrite(t) ==
    /\ workers[t].pc = "loop"
    /\ workers[t].idx = Len(workers[t].sites)
    /\ logos' = workers[t].results
    /\ workers' = [workers EXCEPT ![t].pc = "finished"]
    /\ UNCHANGED <<catalog, cache, placeholders, max_retries, runVars, extractVars, calls>>

InitAdmin ==
    /\ catalog = <<Site(UrlA, "true", None), Site(UrlB, "true", None)>> /\ logos = <<>>
    /\ cache = NoFiles /\ placeholders = NoPlaceholders
    /\ max_retries = DefaultMaxRetries
    /\ mode = "admin" /\ pc = "idle" /\ abortCause = NoneStr
    /\ sitesRead = <<>> /\ existing = <<>> /\ idx = 0 /\ results = <<>>
    /\ writes = 0 /\ net = {} /\ site = None /\ processed = None
    /\ ExtractorIdle
    /\ calls = <<>> /\ workers = NoWorkers

NextAdmin ==
    \/ AddSite(SiteForms)
    \/ DeleteSite(EditUrls)
    \/ ScrapeNow
    \/ \E t \in 1..Len(workers) : ThreadStart(t)
    \/ \E t \in 1..Len(workers) : ThreadSite(t)
    \/ \E t \in 1..Len(workers) : ThreadWrite(t)

SpecAdmin == InitAdmin /\ [][NextAdmin]_vars

-----------------------------------------------------------------------------
(* Properties *)

Last(seq) == seq[Len(seq)]
RecordsOf(seq, url) == {i \in 1..Len(seq) : seq[i].site_url = url}
Others(seq, url) == SelectSeq(seq, LAMBDA r : r.site_url # url)

\* C1: after refresh_all completes, the persisted list holds exactly one
\* record for every enabled site of the catalog read (a missing `enabled`
\* counts as enabled) and none for a disabled or unknown site; every status
\* is ok, fallback or error, and a record with status error has no logo_url.
C1_OneRecordPerEnabledSite ==
    (mode = "all" /\ pc = "done") =>
        /\ \A k \in 1..Len(sitesRead) :
             Cardinality(RecordsOf(logos, sitesRead[k].url))
                 = IF sitesRead[k].enabled # "false" THEN 1 ELSE 0
        /\ \A i \in 1..Len(logos) :
             /\ \E k \in 1..Len(sitesRead) : sitesRead[k].url = logos[i].site_url
             /\ logos[i].status \in {"ok", "fallback", "error"}
             /\ logos[i].status = "error" => logos[i].logo_url = None

\* a full refresh that dropped the record of a disabled site and made one for
\* a site without the `enabled` key
C1_Witness ==
    /\ mode = "all" /\ pc = "done"
    /\ Len(logos) = 1
    /\ \E k \in 1..Len(sitesRead) :
         sitesRead[k].enabled = "false" /\ RecordsOf(existing, sitesRead[k].url) # {}
    /\ \E k \in 1..Len(sitesRead) :
         sitesRead[k].enabled = "absent" /\ RecordsOf(logos, sitesRead[k].url) # {}

\* C2: a site with a configured override yields the record method=manual,
\* status=ok, logo_url=<override>, whatever record was persisted before, and
\* the run issues no page fetch, no probe, no image download and no
\* placeholder generation for it.
C2_OverrideWins ==
    mode \in {"all", "single"} =>
        \A k \in 1..Len(sitesRead) :
            LET s == sitesRead[k]
            IN  s.fallback_logo_url # None =>
                  /\ \A kind \in {"GET", "HEAD", "IMG", "SVG"} : <<kind, s.url>> \notin net
                  /\ \A i \in RecordsOf(results, s.url) :
                       /\ results[i].extraction_method = "manual"
                       /\ results[i].status = "ok"
                       /\ results[i].logo_url = s.fallback_logo_url

\* the override replaced a record that scraping had made
C2_Witness ==
    /\ mode \in {"all", "single"} /\ pc = "done"
    /\ \E i \in 1..Len(logos) :
         /\ logos[i].extraction_method = "manual"
         /\ \E j \in RecordsOf(existing, logos[i].site_url) :
              existing[j].extraction_method = "og-image"
              /\ existing[j].logo_url # logos[i].logo_url

\* C3: when extraction or image processing failed for a site without override
\* and a record of the site with status ok or fallback was persisted, the new
\* record carries that record's logo_url and status.
C3_KeepsPriorLogo ==
    [][ (/\ pc = "resolve"
         /\ processed.outcome \in {"failed", "skipped"}
         /\ \E j \in RecordsOf(existing, site.url) :
              existing[j].status \in {"ok", "fallback"})
        => (/\ pc' \in {"loop", "done"}
            /\ results' # <<>>
            /\ Last(results').site_url = site.url
            /\ \E j \in RecordsOf(existing, site.url) :
                 /\ Last(results').logo_url = existing[j].logo_url
                 /\ Last(results').status = existing[j].status
            /\ mode = "single" => Last(results') = Last(logos')) ]_vars

\* a site whose page could not be fetched keeps its scraped logo with status ok
C3_Witness ==
    /\ pc \in {"loop", "done"} /\ results # <<>>
    /\ Last(results).extraction_method = "none"
    /\ Last(results).error_message = "Failed to fetch page"
    /\ Last(results).status = "ok"
    /\ \E j \in RecordsOf(existing, Last(results).site_url) :
         /\ existing[j].extraction_method = "og-image"
         /\ existing[j].logo_url = Last(results).logo_url

\* C4: every step of refresh_single(X) leaves the records of the other sites
\* as they were, in their order: none changed, added or removed.
C4_SingleTouchesOnlyX ==
    [][ mode' = "single" =>
          IF site' = None THEN logos' = logos
          ELSE Others(logos', site'.url) = Others(logos, site'.url) ]_vars

\* refresh_single replaced the record of one site beside the record of another
C4_Witness ==
    /\ mode = "single" /\ pc = "done" /\ writes = 1
    /\ Len(logos) = 2 /\ Len(existing) = 2
    /\ logos # existing
    /\ Others(existing, site.url) # <<>>

\* C5: no error raised while one site is handled ends refresh_all: the only
\* exception that leaves it is the unreadable catalog.
C5_NoSiteErrorAbortsRun ==
    (mode = "all" /\ pc = "aborted") => abortCause = "catalog unreadable"

\* C6: when the catalog cannot be read, refresh_all ends with the error
\* before any site is processed: no request, no image processing, no
\* placeholder, and the record store and both cache directories unchanged.
C6_CatalogErrorIsClean ==
    [][ (mode' = "all" /\ abortCause' = "catalog unreadable")
        => (/\ pc' = "aborted"
            /\ net' = {} /\ writes' = 0 /\ results' = <<>>
            /\ UNCHANGED <<logos, cache, placeholders>>) ]_vars

\* the refresh of a populated store failed on the catalog
C6_Witness ==
    /\ mode = "all" /\ pc = "aborted" /\ abortCause = "catalog unreadable"
    /\ Len(logos) = 2
    /\ \E sl \in Slugs : cache[sl].png # "absent"
    /\ \E sl \in PlaceholderSlugs : placeholders[sl] # NoFile

Priority ==
    <<"apple-touch-icon", "favicon", "og-image", "twitter-image",
      "header-logo", "common-path">>

\* strategy number i of the priority list yields a candidate for the page fetched
YieldsAt(i) ==
    StrategyResult(Priority[i], fetched.html, fetched.final_url, env.probes) # None

Yielding == {i \in 1..Len(Priority) : YieldsAt(i)}

\* C7: the strategies are evaluated in the fixed priority order and the result
\* is that of the first one yielding a candidate; none is evaluated after it,
\* so no HEAD probe is issued unless the result is the common-path one.
C7_FirstStrategyWins ==
    pc = "extracted" =>
        /\ evaluated = SubSeq(Priority, 1, Len(evaluated))
        /\ extraction.status = "ok" =>
             /\ Yielding # {}
             /\ extraction.method = Priority[Min(Yielding)]
             /\ evaluated = SubSeq(Priority, 1, Min(Yielding))
             /\ extraction.method # "common-path" => heads = 0

\* og-image returned for a page that also has a twitter image and a logo at a
\* common path
C7_Witness ==
    /\ pc = "extracted" /\ extraction.method = "og-image"
    /\ YieldsAt(4) /\ YieldsAt(6)
    /\ heads = 0 /\ fetched.final_url # site.url

IsErrorResult ==
    extraction.status = "error" /\ extraction.method = "none" /\ extraction.logo_url = None

IsOkResult ==
    extraction.status = "ok" /\ extraction.method # "none" /\ extraction.logo_url # None

FetchFailed == fetched.html = None

\* the evaluation of a strategy raised before any strategy had yielded
RaisedInCascade ==
    \/ env.raisesAt = "parse"
    \/ \E i \in 1..Len(Priority) :
         Priority[i] = env.raisesAt /\ \A j \in 1..(i - 1) : ~YieldsAt(j)

\* C8 as stated: the error result exactly when the fetch failed, no strategy
\* yields a candidate or an exception occurred; the ok result otherwise.
C8_ErrorIffNoCandidate ==
    pc = "extracted" =>
        LET cause == \/ FetchFailed
                     \/ ~FetchFailed /\ (Yielding = {} \/ RaisedInCascade)
        IN  /\ IsErrorResult <=> cause
            /\ ~cause => IsOkResult

\* C8 amended: the error result exactly when the fetch failed or returned an
\* empty document, no strategy yields a candidate or an exception occurred;
\* the ok result otherwise.
C8_ErrorIffNoCandidateOrEmpty ==
    pc = "extracted" =>
        LET cause == \/ FetchFailed
                     \/ ~FetchFailed /\ fetched.html.empty
                     \/ ~FetchFailed /\ (Yielding = {} \/ RaisedInCascade)
        IN  /\ IsErrorResult <=> cause
            /\ ~cause => IsOkResult

\* an empty document fetched from a site that has a logo at a common path
C8_Witness ==
    /\ pc = "extracted" /\ ~FetchFailed /\ fetched.html.empty
    /\ env.raisesAt = "none" /\ YieldsAt(6)
    /\ IsErrorResult /\ extraction.error = "Failed to fetch page"

C9_FetchState ==
    /\ gets <= max_retries + 1
    /\ sleeps = [a \in 1..Len(sleeps) |-> 2 ^ (a - 1)]
    /\ pc = "fetch" => (fetched = None /\ gets = attempt /\ Len(sleeps) = attempt)
    /\ (fetched # None /\ fetched.html # None) =>
          (fetched.final_url # None /\ gets = Len(sleeps) + 1)
    /\ (fetched # None /\ fetched.html = None) =>
          (fetched.final_url = None /\ gets = max_retries + 1 /\ Len(sleeps) = max_retries)

\* C9: _fetch_page issues at most max_retries+1 GETs and returns: at the first
\* successful one, with no GET after it; the failed attempt a < max_retries is
\* followed by a wait of 2^a seconds; the failed attempt max_retries is
\* followed by the return of (None, None) without a wait.
C9_BoundedRetries ==
    /\ []C9_FetchState
    /\ [][(fetched # None /\ fetched' # None) => (gets' = gets /\ sleeps' = sleeps)]_vars
    /\ (pc = "fetch") ~> (fetched # None)

\* a page fetched at the third attempt, after waits of 1 and 2 seconds
C9_Witness ==
    /\ max_retries = 2 /\ fetched # None /\ fetched.html # None
    /\ gets = 3 /\ sleeps = <<1, 2>>

\* C10: the persisted list holds at most one record per site_url.
C10_UniqueSiteUrl ==
    \A i, j \in 1..Len(logos) : logos[i].site_url = logos[j].site_url => i = j

\* refresh_single replaced the record of a site that had one
C10_Witness ==
    /\ mode = "single" /\ pc = "done" /\ writes = 1
    /\ RecordsOf(existing, site.url) # {}
    /\ Len(logos) = 2

\* C11: in every persisted record, whatever refreshes and catalog edits came
\* before, extraction_method = manual implies status = ok.
C11_ManualImpliesOk ==
    \A i \in 1..Len(logos) :
        logos[i].extraction_method = "manual" => logos[i].status = "ok"

\* the override of a site was removed after a refresh and the next refresh,
\* failing to fetch the page, kept the manual logo under another method
C11_Witness ==
    /\ pc = "done"
    /\ \E i \in 1..Len(logos) :
         /\ logos[i].logo_url = ManualLogo(logos[i].site_url)
         /\ logos[i].extraction_method = "none"
         /\ logos[i].status = "ok"
         /\ \E j \in RecordsOf(existing, logos[i].site_url) :
              existing[j].extraction_method = "manual"

\* C12: process_logo rejects every image whose decoded width or height is
\* below 32 or above 2000 (writing nothing), and accepts the dimensions of
\* every image with both axes in 32..2000: such a call succeeds unless a
\* save fails.
C12_DimensionLimits ==
    (mode = "process" /\ processed # None /\ processed.download.kind = "image") =>
        LET w == processed.download.width
            h == processed.download.height
        IN  /\ (w < 32 \/ h < 32 \/ w > 2000 \/ h > 2000) =>
                  (processed.outcome = "failed" /\ processed.cached_path = None)
            /\ (32 <= w /\ w <= 2000 /\ 32 <= h /\ h <= 2000 /\ processed.save = "ok") =>
                  (processed.outcome = "ok" /\ processed.cached_path # None)

\* an image of 31x400 was rejected
C12_Witness ==
    /\ mode = "process" /\ processed # None /\ processed.download.kind = "image"
    /\ processed.download.width = 31 /\ processed.download.height = 400
    /\ processed.outcome = "failed"

\* C18: after any call of process_logo the PNG and the WebP file of the cache
\* key are both the encodings of the image just processed, or both as they
\* were before the call.
C18_BothVariantsOrNeither ==
    [][ mode = "process" =>
          \A sl \in Slugs :
              \/ cache'[sl] = cache[sl]
              \/ /\ processed'.download.kind = "image"
                 /\ cache'[sl] = [png  |-> processed'.download.content,
                                  webp |-> processed'.download.content] ]_vars

DeclaredSize(link) == IF link.sizes.form = "WxH" THEN link.sizes.w ELSE 0

\* the apple-touch-icon links of the page fetched that have a non-empty href
AppleCandidates ==
    {i \in 1..Len(fetched.html.links) :
        /\ RelContains(fetched.html.links[i], W_apple)
        /\ fetched.html.links[i].href # None
        /\ fetched.html.links[i].href # EmptyRef}

\* C14: among the apple-touch-icon links of the page, the strategy selects a
\* link with a non-empty href whose declared size no other such link
\* exceeds, and resolves its href against the final URL.
C14_LargestAppleIcon ==
    (/\ pc = "extracted" /\ fetched.html # None /\ ~fetched.html.empty
     /\ env.raisesAt = "none" /\ AppleCandidates # {})
        => /\ extraction.method = "apple-touch-icon"
           /\ \E i \in AppleCandidates :
                LET link == fetched.html.links[i]
                IN  /\ extraction.logo_url = urljoin(fetched.final_url, link.href)
                    /\ \A j \in AppleCandidates :
                         DeclaredSize(fetched.html.links[j]) <= DeclaredSize(link)

\* links declaring 120x120 and 180x180, in that order: the 180x180 one is
\* selected
C14_Witness ==
    /\ pc = "extracted" /\ fetched.html # None /\ ~fetched.html.empty
    /\ env.raisesAt = "none"
    /\ fetched.html.links = <<Apple120, Apple180>>
    /\ extraction.method = "apple-touch-icon"
    /\ extraction.logo_url = urljoin(fetched.final_url, Apple180.href)

\* the site being resolved has no override, its extraction or processing
\* failed, and a record of it with status ok or fallback is persisted or not
FallbackCase(hasPrior) ==
    /\ pc = "resolve"
    /\ processed.outcome \in {"failed", "skipped"}
    /\ hasPrior <=> \E j \in RecordsOf(existing, site.url) :
                        existing[j].status \in {"ok", "fallback"}
    /\ pc' \in {"loop", "done"}

C16_RetainedVerbatim ==
    [][ FallbackCase(TRUE) =>
          \E j \in RecordsOf(existing, site.url) :
              /\ Last(results').logo_url = existing[j].logo_url
              /\ Last(results').status = existing[j].status
              /\ Last(results').extraction_method = existing[j].extraction_method
              /\ Last(results').error_message = existing[j].error_message ]_vars

\* number of enabled sites among the first n entries read
RECURSIVE EnabledAmong(_)
EnabledAmong(n) ==
    IF n = 0 THEN 0
    ELSE EnabledAmong(n - 1) + (IF sitesRead[n].enabled # "false" THEN 1 ELSE 0)

\* C19: refresh_all writes the persisted list exactly once, when the records
\* of all enabled sites are collected; until then the persisted list is what
\* it was when the refresh started.
C19_OneFinalWrite ==
    mode = "all" =>
        /\ pc \in {"loop", "fetch", "parse", "extracted", "resolve"} =>
              (writes = 0 /\ logos = existing)
        /\ (pc = "aborted" /\ abortCause # "catalog unreadable") =>
              (writes = 0 /\ logos = existing)
        /\ (pc = "aborted" /\ abortCause = "catalog unreadable") => writes = 0
        /\ pc = "done" =>
              /\ writes = 1
              /\ idx = Len(sitesRead)
              /\ Len(results) = EnabledAmong(Len(sitesRead))
              /\ logos = results

\* the second site is being fetched, the record of the first is collected
\* and the persisted list is still the one of before the refresh
C19_Witness ==
    /\ mode = "all" /\ pc = "fetch" /\ idx = 1 /\ Len(results) = 1
    /\ existing # <<>> /\ logos = existing /\ results # logos /\ writes = 0

\* C17: two sites of distinct urls never get the same cache key: the records
\* a refresh makes for two distinct sites, other than by a manual override,
\* never name the same cached image or the same placeholder file.
C17_DistinctCacheKeys ==
    mode = "all" =>
        \A i, j \in 1..Len(results) :
            (/\ results[i].site_url # results[j].site_url
             /\ results[i].extraction_method # "manual"
             /\ results[j].extraction_method # "manual")
                => results[i].logo_url # results[j].logo_url

\* the refresh threads that have been started and have not ended
InFlight == {t \in 1..Len(workers) : workers[t].pc # "finished"}

\* C20: at most one refresh run is in flight at any time.
C20_OneRunInFlight == Cardinality(InFlight) <= 1

\* the score the header strategy is described to give an image: its alt,
\* src and class attributes and its declared dimensions
HasWord(text, w) ==
    \E i \in 1..Len(text) : \E k \in i..Len(text) : LowerText(SubSeq(text, i, k)) = w

DeclaredBoth(img) ==
    /\ img.width.form \in {"int", "digits", "px"} /\ img.width.n # 0
    /\ img.height.form \in {"int", "digits", "px"} /\ img.height.n # 0

DescribedScore(img) ==
    LET alt  == \E w \in {W_logo, W_brand, W_site} : HasWord(img.alt, w)
        src  == /\ Truthy(img.src)
                /\ \E w \in {W_logo, W_brand} : HasWord(RefText(img.src), w)
        cls  == \E w \in {W_logo, W_brand, W_site_logo} : HasWord(img.class, w)
        size == /\ DeclaredBoth(img)
                /\ img.width.n \in 60..400 /\ img.height.n \in 40..400
        \* 0.33 <= w/h <= 3.0
        rat  == /\ DeclaredBoth(img)
                /\ 100 * img.width.n >= 33 * img.height.n
                /\ img.width.n <= 3 * img.height.n
    IN  (IF alt THEN 3 ELSE 0) + (IF src THEN 2 ELSE 0) + (IF cls THEN 2 ELSE 0)
          + (IF size THEN 1 ELSE 0) + (IF rat THEN 1 ELSE 0)

\* the positions of the images given that reach the threshold of 4
Reaching4 ==
    {i \in 1..Len(fetched.html.header) : DescribedScore(fetched.html.header[i]) >= 4}

\* those of them that have a non-empty src
Reaching4WithSrc == {i \in Reaching4 : Truthy(fetched.html.header[i].src)}

\* C21 as stated: the strategy accepts the first image in document order
\* whose score is at least 4, and yields no candidate when no image reaches 4.
C21_FirstImageReaching4 ==
    (mode = "header" /\ pc = "extracted") =>
        IF Reaching4 = {} THEN extraction.logo_url = None
        ELSE LET img == fetched.html.header[Min(Reaching4)]
             IN  /\ Truthy(img.src)
                 /\ extraction.logo_url = urljoin(fetched.final_url, img.src)

\* C21: the strategy scores each image as described and accepts the first
\* image in document order that scores at least 4 and has a non-empty src,
\* an image of that score without src being passed over; it yields no
\* candidate when there is no such image.
C21_FirstImageReaching4WithSrc ==
    (mode = "header" /\ pc = "extracted") =>
        IF Reaching4WithSrc = {} THEN extraction.logo_url = None
        ELSE extraction.logo_url =
                urljoin(fetched.final_url, fetched.html.header[Min(Reaching4WithSrc)].src)

\* an image of score 5 without src, then one of score 4, then one of score 9:
\* the second is accepted
C21_Witness ==
    /\ mode = "header" /\ pc = "extracted"
    /\ fetched.html.header = <<ImgNoSrc, ImgClassed, ImgLogo>>
    /\ DescribedScore(ImgNoSrc) = 5 /\ DescribedScore(ImgClassed) = 4
    /\ DescribedScore(ImgLogo) = 9
    /\ extraction.logo_url = urljoin(fetched.final_url, ImgClassed.src)

\* the domain without a leading 'www.'
WithoutWwwPrefix(domain) ==
    IF Len(domain) >= 2 /\ domain[1] = "www" /\ domain[2] = "."
    THEN SubSeq(domain, 3, Len(domain)) ELSE domain

\* the initials described: of the first two words of the name, or of the
\* domain when the name has no word
DescribedInitials(site_name, domain) ==
    IF site_name # <<>>
    THEN [i \in 1..(IF Len(site_name) < 2 THEN Len(site_name) ELSE 2) |->
             InitialOf(site_name[i])]
    ELSE <<Upper2(Head(WithoutWwwPrefix(domain)))>>

\* C22: the initials of a placeholder are the uppercased first letters of up
\* to the first two words of the display name, and, when the display name is
\* empty, the first two characters of the domain with a leading 'www.'
\* stripped.
C22_Initials ==
    \A i \in 1..Len(calls) :
        calls[i].content.initials = DescribedInitials(calls[i].site_name, calls[i].domain)

UniqueUrls(sites) == \A i, j \in 1..Len(sites) : sites[i].url = sites[j].url => i = j

UrlsOf(sites) == {sites[i].url : i \in 1..Len(sites)}

\* sites with the entry at position k taken out
WithoutEntry(sites, k) == SubSeq(sites, 1, k - 1) \o SubSeq(sites, k + 1, Len(sites))

\* C23: the catalog never holds two sites of the same url, and each add-site
\* or delete-site operation either leaves the catalog as it is, or appends a
\* site whose url the catalog did not have, or takes out the one site of a
\* url and nothing else.
C23_CatalogUrlsUnique ==
    /\ [](UniqueUrls(catalog))
    /\ [][ \/ catalog' = catalog
           \/ \E s \in UrlsOf(catalog') \ UrlsOf(catalog) :
                /\ Len(catalog') = Len(catalog) + 1
                /\ catalog' = Append(catalog, catalog'[Len(catalog')])
                /\ catalog'[Len(catalog')].url = s
           \/ \E k \in 1..Len(catalog) : catalog' = WithoutEntry(catalog, k) ]_vars

\* the first of two sites was deleted, added again, and a third site added
C23_Witness ==
    /\ mode = "catalog" /\ Len(catalog) = 3
    /\ catalog[1] = Site(UrlB, "false", None)
    /\ catalog[2].url = UrlA /\ catalog[2].name = Name(<<"Acme">>)
    /\ catalog[3].url = UrlAShop

\* a record the static build can dereference
Servable(rec) == Truthy(rec.logo_url) /\ rec.status \in {"ok", "fallback"}

\* C24: every record _process_site returns, and so every record collected or
\* persisted by refresh_all and refresh_single, has a non-empty logo_url and
\* the status ok or fallback: status error with no logo_url is never
\* persisted.
C24_NoErrorRecord ==
    /\ \A i \in 1..Len(results) : Servable(results[i])
    /\ \A i \in 1..Len(logos) : Servable(logos[i])

\* a site with no earlier record whose page could not be fetched: the record
\* persisted carries the extractor's error and a placeholder
C24_Witness ==
    /\ mode = "all" /\ pc = "done" /\ writes = 1
    /\ \E i \in 1..Len(logos) :
         /\ RecordsOf(existing, logos[i].site_url) = {}
         /\ logos[i].extraction_method = "none"
         /\ logos[i].error_message = "Failed to fetch page"
         /\ logos[i].status = "fallback"
         /\ logos[i].logo_url = PlaceholderPath(slugify(logos[i].site_url.netloc))

\* error_message is set exactly in the records of a failed extraction
ErrorIffMethodNone(rec) == (rec.error_message # NoneStr) <=> (rec.extraction_method = "none")

\* _process_site returns a record after the extraction or the processing
\* failed
ReturnsAfterFailure ==
    /\ pc = "resolve" /\ processed.outcome # "ok"
    /\ pc' \in {"loop", "done"}

\* C25: in every record _process_site produces, error_message is non-null
\* exactly when extraction_method is none; a record built after a failure of
\* the image processing keeps the method discovered and a null error_message
\* with a logo_url of the fallback chain, and one built after a failed
\* extraction has the method none and the extractor's error.
C25_ErrorIffMethodNone ==
    /\ [](/\ \A i \in 1..Len(results) : ErrorIffMethodNone(results[i])
          /\ \A i \in 1..Len(logos) : ErrorIffMethodNone(logos[i]))
    /\ [][ ReturnsAfterFailure =>
             LET rec == Last(results')
             IN  /\ rec.site_url = site.url
                 /\ rec.extraction_method = extraction.method
                 /\ rec.error_message = extraction.error
                 /\ rec.logo_url # CachedPath(domain_slug(site.url.netloc))
                       \/ KeepsExisting(existing_logo(site.url, existing))
                 /\ extraction.status = "ok"
                       => rec.extraction_method # "none" /\ rec.error_message = NoneStr
                 /\ extraction.status = "error"
                       => rec.extraction_method = "none" /\ rec.error_message # NoneStr ]_vars

\* the logo was found by a strategy and its processing failed: the record
\* persisted has a placeholder, the strategy as method and no error message
C25_Witness ==
    /\ pc = "done" /\ writes = 1
    /\ \E i \in 1..Len(logos) :
         /\ logos[i].status = "fallback"
         /\ logos[i].logo_url = PlaceholderPath(slugify(logos[i].site_url.netloc))
         /\ logos[i].extraction_method \notin {"none", "manual"}
         /\ logos[i].error_message = NoneStr

\* the sites of the catalog that are enabled and have no override
ScrapedSites == {k \in 1..Len(catalog) : IsEnabled(catalog[k]) /\ ~HasOverride(catalog[k])}

\* C26: while every attempt fails, the persisted record of an enabled site
\* without override that has status ok or fallback keeps its logo_url and
\* its status through every step of every run of refresh_all and
\* refresh_single, and no placeholder is generated for such a site.
C26_FailingRunsKeepRecord ==
    [][ \A k \in ScrapedSites : \A i \in RecordsOf(logos, catalog[k].url) :
          logos[i].status \in {"ok", "fallback"}
             => /\ \E j \in RecordsOf(logos', catalog[k].url) :
                     /\ logos'[j].logo_url = logos[i].logo_url
                     /\ logos'[j].status = logos[i].status
                /\ (pc = "resolve" /\ site.url = catalog[k].url)
                     => calls' = calls /\ placeholders' = placeholders ]_vars

\* two failing runs in a row: the run that ended read a record of status ok
\* that a failed run had made, and wrote it again with the same logo_url;
\* another record was read and written as fallback with its placeholder
C26_Witness ==
    /\ pc = "done" /\ writes = 1
    /\ \E i \in 1..Len(logos) : \E j \in RecordsOf(existing, logos[i].site_url) :
         /\ existing[j].status = "ok" /\ existing[j].extraction_method = "none"
         /\ logos[i].status = "ok" /\ logos[i].logo_url = existing[j].logo_url
    /\ \E i \in 1..Len(logos) : \E j \in RecordsOf(existing, logos[i].site_url) :
         /\ existing[j].status = "fallback"
         /\ logos[i].status = "fallback" /\ logos[i].logo_url = existing[j].logo_url

\* a run of refresh_single starts
SingleStarts == RunIdle /\ mode' = "single" /\ catalog' = catalog

UrlsOfCatalog == {catalog[k].url : k \in 1..Len(catalog)}

\* C27: refresh_single(X) for a url X the catalog does not hold fails with
\* 'Site not found' before any scraping: no site is entered that is not in
\* the catalog, and the failing call leaves the persisted records (a stale
\* record of X included) and the two cache directories as they were and
\* issues no request.
C27_SiteNotFound ==
    [][ SingleStarts =>
          /\ site' # None => site'.url \in UrlsOfCatalog
          /\ abortCause' = "Site not found"
                => /\ pc' = "aborted" /\ site' = None
                   /\ UrlsOfCatalog # SiteUrls
                   /\ logos' = logos /\ cache' = cache /\ placeholders' = placeholders
                   /\ net' = {} /\ gets' = 0 /\ heads' = 0 /\ calls' = <<>>
                   /\ writes' = 0 ]_vars

\* refresh_single failed for a site that was deleted from the catalog after
\* a refresh: its record is still persisted
C27_Witness ==
    /\ mode = "single" /\ pc = "aborted" /\ abortCause = "Site not found"
    /\ \E i \in 1..Len(logos) : logos[i].site_url \notin UrlsOfCatalog
    /\ net = {} /\ writes = 0

====
